---- MODULE Spec2Model ----
\* A model of the SQL safety gate (sql/validator.py, security/sql_guardrails.py),
\* of the bounded-retry generation loop (app.py), of the evaluation runner
\* (evaluation/run_eval.py) and of the dataset loader and the metrics engine
\* (evaluation/metrics.py) of the SQL assistant.
\*
\* Texts are sequences of characters; a character is a one-element string.
\* Two characters the TLA+ lexer cannot hold in a string are named instead:
\* APOS is the single quote and BTICK is the backtick.
EXTENDS Integers, Sequences, FiniteSets, TLC

VARIABLES
    pq,        \* the query text handed to the pure functions
    pvalid,    \* result of validate_query(pq), or NoResult
    psafe,     \* result of SQLGuardrails.check_query_safety(pq), or NoResult
    psan,      \* successive results of SQLGuardrails.sanitize_query, starting from pq
    max_retries, \* attempt_sql_generation: the parameter max_retries
    attempt,     \* attempt_sql_generation: the loop variable, the next attempt to run
    calls,       \* number of calls of get_response_from_llm_model so far
    outcomes,    \* the generator outcomes so far, one per call
    rpc,         \* attempt_sql_generation: "loop" or "returned"
    rret,        \* the tuple attempt_sql_generation returned
    dataset,        \* run_evaluation: the test cases, in order
    inferOutcomes,  \* what a call of llm_inference_fn may do (return a text, raise)
    dbOutcomes,     \* what execute_query may do on this database (return a cursor, raise)
    tidx,           \* run_evaluation: index of the next test case
    results,        \* run_evaluation: the list results
    executed,       \* every call of execute_query so far: the query and what it did
    conn,           \* the connection of run_evaluation: "none", "open" or "closed"
    epc,            \* run_evaluation: "idle", "start", "loop", "returned", "raised"
                    \* (get_database_connection raised) or "interrupted"
    trace,          \* run_evaluation: per test case so far, what the inference
                    \* function and the executor did
    models,         \* run_multi_model_evaluation: the model names, in order
    midx,           \* run_multi_model_evaluation: index of the current model
    mpc,            \* run_multi_model_evaluation: the stage of the current model;
                    \* main of evaluate_models.py after it: "printed", "propagated"
    all_results,    \* run_multi_model_evaluation: the dict all_results
    model_summaries, \* run_multi_model_evaluation: the dict model_summaries
    stageFailed,    \* the models for which building, running or summarising raised
    comparison,     \* what _calculate_model_comparison returned
    file,           \* load_evaluation_dataset: the file at filepath
    lpc,            \* load_evaluation_dataset: "idle", "start", "returned" or "raised"
    sgen,           \* the metrics engine: the generated text of the pair
    sexp,           \* the metrics engine: the expected text of the pair
    spair,          \* the scores of (sgen, sexp) and their composite, or NoScore
    sself           \* the scores of (sexp, sexp) and their composite, or NoScore

pureVars == <<pq, pvalid, psafe, psan>>

retryVars == <<max_retries, attempt, calls, outcomes, rpc, rret>>

evalVars == <<dataset, inferOutcomes, dbOutcomes, tidx, results, executed, conn, epc, trace>>

multiVars == <<models, midx, mpc, all_results, model_summaries, stageFailed, comparison>>

loadVars == <<file, lpc>>

scoreVars == <<sgen, sexp, spair, sself>>

vars ==
    <<pq, pvalid, psafe, psan, max_retries, attempt, calls, outcomes, rpc, rret,
      dataset, inferOutcomes, dbOutcomes, tidx, results, executed, conn, epc, trace,
      models, midx, mpc, all_results, model_summaries, stageFailed, comparison,
      file, lpc, sgen, sexp, spair, sself>>

----------------------------------------------------------------------------
\* Bounds of the model.

\* most fragments concatenated into one input text
MaxFrags == 3

\* largest max_retries handed to attempt_sql_generation
MaxRetries == 3

\* most test cases in a dataset
MaxTests == 2

\* most models in one multi-model evaluation
MaxModels == 2

\* most rows a query returns
MaxRows == 1

\* most pieces concatenated into one generated text that is scored
MaxWords == 3

----------------------------------------------------------------------------
\* Characters and the str methods the code uses.

APOS == "APOS"
BTICK == "BTICK"
NL == "\n"

NoResult == [ok |-> FALSE, msg |-> <<"no result", "">>]

LowerLetters ==
    <<"a","b","c","d","e","f","g","h","i","j","k","l","m",
      "n","o","p","q","r","s","t","u","v","w","x","y","z">>

UpperLetters ==
    <<"A","B","C","D","E","F","G","H","I","J","K","L","M",
      "N","O","P","Q","R","S","T","U","V","W","X","Y","Z">>

\* the characters str.strip() removes and the regex class of whitespace matches
Whitespace == {" ", NL, "\t"}

IsSpace(c) == c \in Whitespace

SetMin(S) == CHOOSE x \in S : \A y \in S : x <= y

SetMax(S) == CHOOSE x \in S : \A y \in S : x >= y

\* str.upper() of one character
upper_char(c) ==
    IF \E i \in 1..26 : LowerLetters[i] = c
    THEN UpperLetters[CHOOSE i \in 1..26 : LowerLetters[i] = c]
    ELSE c

\* str.upper()
upper(s) == [i \in 1..Len(s) |-> upper_char(s[i])]

\* str.strip()
strip(s) ==
    LET keep == {i \in 1..Len(s) : ~IsSpace(s[i])}
    IN  IF keep = {} THEN <<>> ELSE SubSeq(s, SetMin(keep), SetMax(keep))

\* the text p stands in s at position i
MatchAt(s, p, i) ==
    /\ i >= 1
    /\ i + Len(p) - 1 <= Len(s)
    /\ SubSeq(s, i, i + Len(p) - 1) = p

\* str.startswith(p)
startswith(s, p) == MatchAt(s, p, 1)

\* p in s
contains(s, p) == \E i \in 1..(Len(s) + 1) : MatchAt(s, p, i)

\* str.count(c) for a single character c
count(s, c) == Cardinality({i \in 1..Len(s) : s[i] = c})

\* str.split(c) for a single character c
RECURSIVE split(_, _)
split(s, c) ==
    LET at == {i \in 1..Len(s) : s[i] = c}
    IN  IF at = {} THEN <<s>>
        ELSE LET i == SetMin(at)
             IN  <<SubSeq(s, 1, i - 1)>> \o split(SubSeq(s, i + 1, Len(s)), c)

\* str.rstrip(c) for a single character c: every trailing c goes
rstrip_char(s, c) ==
    LET keep == {i \in 1..Len(s) : s[i] # c}
    IN  IF keep = {} THEN <<>> ELSE SubSeq(s, 1, SetMax(keep))

\* c.join(parts)
RECURSIVE join(_, _)
join(parts, c) ==
    IF Len(parts) = 0 THEN <<>>
    ELSE IF Len(parts) = 1 THEN parts[1]
    ELSE parts[1] \o <<c>> \o join(Tail(parts), c)

----------------------------------------------------------------------------
\* sql/validator.py

KW_SELECT == <<"S","E","L","E","C","T">>

DANGEROUS_KEYWORDS ==
    << [name |-> "DROP",     text |-> <<"D","R","O","P">>],
       [name |-> "DELETE",   text |-> <<"D","E","L","E","T","E">>],
       [name |-> "TRUNCATE", text |-> <<"T","R","U","N","C","A","T","E">>],
       [name |-> "ALTER",    text |-> <<"A","L","T","E","R">>],
       [name |-> "INSERT",   text |-> <<"I","N","S","E","R","T">>],
       [name |-> "UPDATE",   text |-> <<"U","P","D","A","T","E">>],
       [name |-> "CREATE",   text |-> <<"C","R","E","A","T","E">>],
       [name |-> "MODIFY",   text |-> <<"M","O","D","I","F","Y">>] >>

is_select_query(query) == startswith(upper(strip(query)), KW_SELECT)

\* the keyword scan over a given deny-list, first keyword of the list wins
KeywordScan(keywords, query) ==
    LET upper_query == upper(query)
        found == {k \in 1..Len(keywords) : contains(upper_query, keywords[k].text)}
    IN  IF found # {}
        THEN [ok |-> FALSE,
              msg |-> <<"Query contains potentially dangerous keyword",
                        keywords[SetMin(found)].name>>]
        ELSE [ok |-> TRUE, msg |-> <<"None", "">>]

\* the keyword scan with UPDATE missing from the deny-list
check_dangerous_keywords_no_update(query) ==
    KeywordScan(SelectSeq(DANGEROUS_KEYWORDS, LAMBDA k : k.name # "UPDATE"), query)

check_dangerous_keywords(query) == KeywordScan(DANGEROUS_KEYWORDS, query)

validate_sql_syntax(query) ==
    IF Len(query) = 0
    THEN [ok |-> FALSE, msg |-> <<"Query is empty", "">>]
    ELSE IF count(query, "(") # count(query, ")")
    THEN [ok |-> FALSE, msg |-> <<"Unmatched parentheses", "">>]
    ELSE IF count(query, APOS) % 2 # 0
    THEN [ok |-> FALSE, msg |-> <<"Unmatched single quotes", "">>]
    ELSE [ok |-> TRUE, msg |-> <<"None", "">>]

validate_query(query, allow_unsafe) ==
    IF Len(query) = 0
    THEN [ok |-> FALSE, msg |-> <<"Query is empty", "">>]
    ELSE IF ~is_select_query(query)
    THEN [ok |-> FALSE, msg |-> <<"Only SELECT queries are supported", "">>]
    ELSE IF ~allow_unsafe /\ ~check_dangerous_keywords(query).ok
    THEN [ok |-> FALSE, msg |-> check_dangerous_keywords(query).msg]
    ELSE IF ~validate_sql_syntax(query).ok
    THEN [ok |-> FALSE, msg |-> validate_sql_syntax(query).msg]
    ELSE [ok |-> TRUE, msg |-> <<"Query is valid", "">>]

----------------------------------------------------------------------------
\* security/sql_guardrails.py

KW_DROP == <<"D","R","O","P">>

KW_DELETE == <<"D","E","L","E","T","E">>

KW_TRUNCATE == <<"T","R","U","N","C","A","T","E">>

KW_UNION == <<"U","N","I","O","N">>

LINE_COMMENT == <<"-","-">>

BLOCK_OPEN == <<"/","*">>

BLOCK_CLOSE == <<"*","/">>

\* the regex dot, without DOTALL: every character of s[a..b] is not a newline
DotRun(s, a, b) == \A k \in a..b : s[k] # NL

\* re.search of "a semicolon, any whitespace, then kw", ignoring case
SearchStacked(kw, query) ==
    \E i \in 1..Len(query) :
        /\ query[i] = ";"
        /\ \E j \in (i + 1)..(Len(query) + 1) :
              /\ \A k \in (i + 1)..(j - 1) : IsSpace(query[k])
              /\ MatchAt(upper(query), kw, j)

\* re.search of "UNION, any characters of one line, then SELECT", ignoring case
SearchUnionSelect(query) ==
    \E i \in 1..Len(query) :
        /\ MatchAt(upper(query), KW_UNION, i)
        /\ \E j \in (i + 5)..(Len(query) + 1) :
              /\ DotRun(query, i + 5, j - 1)
              /\ MatchAt(upper(query), KW_SELECT, j)

\* re.search of "two dashes, any characters of one line, then a newline"
SearchLineComment(query) ==
    \E i \in 1..Len(query) :
        /\ MatchAt(query, LINE_COMMENT, i)
        /\ \E j \in (i + 2)..Len(query) :
              /\ DotRun(query, i + 2, j - 1)
              /\ query[j] = NL

\* re.search of "slash star, any characters of one line, then star slash"
SearchBlockComment(query) ==
    \E i \in 1..Len(query) :
        /\ MatchAt(query, BLOCK_OPEN, i)
        /\ \E j \in (i + 2)..Len(query) :
              /\ DotRun(query, i + 2, j - 1)
              /\ MatchAt(query, BLOCK_CLOSE, j)

\* the pattern list, in the order the loop tries it; the name stands for the
\* pattern text that the reason message quotes
DISALLOWED_PATTERNS ==
    <<"stacked DROP", "stacked DELETE", "stacked TRUNCATE",
      "UNION.*SELECT", "line comment", "block comment">>

\* re.search(pattern, query, re.IGNORECASE) for the pattern of that name
re_search(pattern, query) ==
    CASE pattern = "stacked DROP"     -> SearchStacked(KW_DROP, query)
      [] pattern = "stacked DELETE"   -> SearchStacked(KW_DELETE, query)
      [] pattern = "stacked TRUNCATE" -> SearchStacked(KW_TRUNCATE, query)
      [] pattern = "UNION.*SELECT"    -> SearchUnionSelect(query)
      [] pattern = "line comment"     -> SearchLineComment(query)
      [] pattern = "block comment"    -> SearchBlockComment(query)

\* the segments of the split with the empty ones kept
StatementsUnfiltered(query) == split(query, ";")

\* [s.strip() for s in query.split(';') if s.strip()]
Statements(query) ==
    SelectSeq([i \in 1..Len(split(query, ";")) |-> strip(split(query, ";")[i])],
              LAMBDA seg : Len(seg) > 0)

check_query_safety(query) ==
    LET hits == {p \in 1..Len(DISALLOWED_PATTERNS) :
                    re_search(DISALLOWED_PATTERNS[p], query)}
    IN  IF hits # {}
        THEN [ok |-> FALSE,
              msg |-> <<"Query contains disallowed pattern",
                        DISALLOWED_PATTERNS[SetMin(hits)]>>]
        ELSE IF Len(Statements(query)) > 1
        THEN [ok |-> FALSE, msg |-> <<"Multiple SQL statements are not allowed", "">>]
        ELSE [ok |-> TRUE, msg |-> <<"None", "">>]

\* re.sub of "two dashes, any characters of one line, up to the end of the
\* line" by the empty text, with MULTILINE
RECURSIVE RemoveLineComments(_)
RemoveLineComments(s) ==
    LET starts == {i \in 1..Len(s) : MatchAt(s, LINE_COMMENT, i)}
    IN  IF starts = {} THEN s
        ELSE LET i == SetMin(starts)
                 nls == {j \in (i + 2)..Len(s) : s[j] = NL}
                 e == IF nls = {} THEN Len(s) + 1 ELSE SetMin(nls)
             IN  SubSeq(s, 1, i - 1) \o RemoveLineComments(SubSeq(s, e, Len(s)))

\* re.sub of "slash star, as few characters as possible, newlines included,
\* then star slash" by the empty text, with DOTALL
RECURSIVE RemoveBlockComments(_)
RemoveBlockComments(s) ==
    LET closes(i) == {j \in (i + 2)..Len(s) : MatchAt(s, BLOCK_CLOSE, j)}
        starts == {i \in 1..Len(s) : MatchAt(s, BLOCK_OPEN, i) /\ closes(i) # {}}
    IN  IF starts = {} THEN s
        ELSE LET i == SetMin(starts)
                 j == SetMin(closes(i))
             IN  SubSeq(s, 1, i - 1) \o RemoveBlockComments(SubSeq(s, j + 2, Len(s)))

sanitize_query(query) ==
    strip(rstrip_char(RemoveBlockComments(RemoveLineComments(query)), ";"))

----------------------------------------------------------------------------
\* The states of the evaluation runner while it is not running.

NoComparison == [best_models |-> <<>>, metrics_by_model |-> <<>>]

NoFile == [kind |-> "none", content |-> <<>>]

LoadIdle ==
    /\ file = NoFile
    /\ lpc = "idle"

NoScore == [metrics |-> <<>>, composite |-> -1]

ScoreIdle ==
    /\ sgen = <<>>
    /\ sexp = <<>>
    /\ spair = NoScore
    /\ sself = NoScore

EvalIdle ==
    /\ LoadIdle
    /\ dataset = <<>>
    /\ inferOutcomes = {}
    /\ dbOutcomes = {}
    /\ tidx = 0
    /\ results = <<>>
    /\ executed = <<>>
    /\ conn = "none"
    /\ epc = "idle"
    /\ trace = <<>>

MultiIdle ==
    /\ models = <<>>
    /\ midx = 0
    /\ mpc = "idle"
    /\ all_results = <<>>
    /\ model_summaries = <<>>
    /\ stageFailed = {}
    /\ comparison = NoComparison

----------------------------------------------------------------------------
\* app.py: clean_sql_from_response and attempt_sql_generation

FENCE == <<BTICK, BTICK, BTICK>>

\* a line that is empty after strip()
IsBlank(line) == Len(strip(line)) = 0

clean_sql_from_response(response) ==
    LET sql == strip(response)
        lines == split(sql, NL)
        n == Len(lines)
        \* 0-based indices, as in the code: lines[k] of the code is lines[k + 1] here
        start_idx == SetMin({k \in 1..n : k >= n \/ ~IsBlank(lines[k + 1])})
        end_idx == SetMax({k \in 0..(n - 1) : k <= start_idx \/ ~IsBlank(lines[k + 1])})
    IN  IF startswith(sql, FENCE) /\ end_idx > start_idx
        THEN strip(join(SubSeq(lines, start_idx + 1, end_idx), NL))
        ELSE strip(sql)

\* the value a finished call returns: (generated_sql, validation_msg, success_flag)
Returned(query, msg, success) ==
    [done |-> TRUE, query |-> query, msg |-> msg, success |-> success]

\* the attempt ends with `continue`
Continue == [done |-> FALSE, query |-> <<>>, msg |-> <<"continue", "">>, success |-> FALSE]

\* the body of the loop without the guardrail check
AttemptBodyNoGuardrail(n, limit, outcome) ==
    IF outcome.kind = "raise"
    THEN IF n < limit THEN Continue ELSE Returned(<<>>, <<"exception", outcome.err>>, FALSE)
    ELSE LET generated_sql == clean_sql_from_response(outcome.text)
             validation == validate_query(generated_sql, FALSE)
         IN  IF ~validation.ok
             THEN IF n < limit THEN Continue
                  ELSE Returned(generated_sql, validation.msg, FALSE)
             ELSE Returned(generated_sql, <<"llm_prompt", "">>, TRUE)

\* the body of the loop giving up at the first rejected candidate
AttemptBodyNoRetry(n, limit, outcome) ==
    IF outcome.kind = "raise"
    THEN IF n < limit THEN Continue ELSE Returned(<<>>, <<"exception", outcome.err>>, FALSE)
    ELSE LET generated_sql == clean_sql_from_response(outcome.text)
             validation == validate_query(generated_sql, FALSE)
             safety == check_query_safety(generated_sql)
         IN  IF ~validation.ok
             THEN Returned(generated_sql, validation.msg, FALSE)
             ELSE IF ~safety.ok
             THEN Returned(generated_sql, safety.msg, FALSE)
             ELSE Returned(generated_sql, <<"llm_prompt", "">>, TRUE)

\* the body of the loop reporting a failed final attempt without its candidate
\* and reason
AttemptBodyGenericFailure(n, limit, outcome) ==
    IF outcome.kind = "raise"
    THEN IF n < limit THEN Continue ELSE Returned(<<>>, <<"exception", outcome.err>>, FALSE)
    ELSE LET generated_sql == clean_sql_from_response(outcome.text)
             validation == validate_query(generated_sql, FALSE)
             safety == check_query_safety(generated_sql)
         IN  IF ~validation.ok \/ ~safety.ok
             THEN IF n < limit THEN Continue
                  ELSE Returned(<<>>, <<"Failed to generate valid SQL after all retries", "">>,
                                FALSE)
             ELSE Returned(generated_sql, <<"llm_prompt", "">>, TRUE)

\* the body of the loop for attempt n of limit, given what the generator did
AttemptBody(n, limit, outcome) ==
    IF outcome.kind = "raise"
    THEN IF n < limit THEN Continue ELSE Returned(<<>>, <<"exception", outcome.err>>, FALSE)
    ELSE LET generated_sql == clean_sql_from_response(outcome.text)
             validation == validate_query(generated_sql, FALSE)
             safety == check_query_safety(generated_sql)
         IN  IF ~validation.ok
             THEN IF n < limit THEN Continue
                  ELSE Returned(generated_sql, validation.msg, FALSE)
             ELSE IF ~safety.ok
             THEN IF n < limit THEN Continue
                  ELSE Returned(generated_sql, safety.msg, FALSE)
             ELSE Returned(generated_sql, <<"llm_prompt", "">>, TRUE)

\* a loop that runs one attempt more than max_retries
InRangeOffByOne(n, limit) == n <= limit + 1

\* a loop whose body runs once before the range is looked at
InRangeAtLeastOnce(n, limit) == n >= 1 /\ (n <= limit \/ n = 1)

\* n is in range(1, max_retries + 1)
InRange(n, limit) == n >= 1 /\ n <= limit

\* what the generator returns: raw texts of the model
RawResponses ==
    { <<"S","E","L","E","C","T"," ","a">>,
      <<" ","s","e","l","e","c","t"," ","a",";",NL>>,
      <<BTICK,BTICK,BTICK,"s","q","l",NL,"S","E","L","E","C","T"," ","a",NL,BTICK,BTICK,BTICK>>,
      <<BTICK,BTICK,BTICK,NL,"S","E","L","E","C","T"," ","a",NL,"U","n","i","o","n"," ","s","e","l","e","c","t"," ","a">>,
      <<"S","E","L","E","C","T"," ","a",";","S","E","L","E","C","T"," ","a">>,
      <<"S","E","L","E","C","T"," ","a"," ","-","-","a",NL,"a">>,
      <<"S","E","L","E","C","T"," ","a",";","D","R","O","P">>,
      <<"D","R","O","P"," ","a">>,
      <<>> }

\* what one call of get_response_from_llm_model does: it returns a text or raises
GeneratorOutcomes ==
    [kind : {"text"}, text : RawResponses, err : {""}]
        \cup [kind : {"raise"}, text : {<<>>}, err : {"connection refused", "timeout"}]

NotReturned == [query |-> <<>>, msg |-> <<"not returned", "">>, success |-> FALSE]

RetryIdle ==
    /\ max_retries = 0
    /\ attempt = 0
    /\ calls = 0
    /\ outcomes = <<>>
    /\ rpc = "idle"
    /\ rret = NotReturned

PureIdle ==
    /\ pq = <<>>
    /\ pvalid = NoResult
    /\ psafe = NoResult
    /\ psan = <<>>

InitRetry ==
    /\ max_retries \in -1..MaxRetries
    /\ attempt = 1
    /\ calls = 0
    /\ outcomes = <<>>
    /\ rpc = "loop"
    /\ rret = NotReturned
    /\ PureIdle
    /\ EvalIdle
    /\ MultiIdle
    /\ ScoreIdle

\* one pass of the loop body: the generator is called, its text is cleaned,
\* validated and checked, and the attempt either returns or continues
Attempt ==
    /\ rpc = "loop"
    /\ InRange(attempt, max_retries)
    /\ \E outcome \in GeneratorOutcomes :
          LET r == AttemptBody(attempt, max_retries, outcome)
          IN  /\ calls' = calls + 1
              /\ outcomes' = Append(outcomes, outcome)
              /\ IF r.done
                 THEN /\ rpc' = "returned"
                      /\ rret' = [query |-> r.query, msg |-> r.msg, success |-> r.success]
                      /\ attempt' = attempt
                 ELSE /\ rpc' = "loop"
                      /\ rret' = rret
                      /\ attempt' = attempt + 1
    /\ UNCHANGED max_retries
    /\ UNCHANGED <<pureVars, evalVars, loadVars, scoreVars, multiVars>>

\* the loop is over without a return: the final return statement
Exhausted ==
    /\ rpc = "loop"
    /\ ~InRange(attempt, max_retries)
    /\ rpc' = "returned"
    /\ rret' = [query |-> <<>>,
                msg |-> <<"Failed to generate valid SQL after all retries", "">>,
                success |-> FALSE]
    /\ UNCHANGED <<max_retries, attempt, calls, outcomes>>
    /\ UNCHANGED <<pureVars, evalVars, loadVars, scoreVars, multiVars>>

NextRetry == Attempt \/ Exhausted

SpecRetry == InitRetry /\ [][NextRetry]_vars

----------------------------------------------------------------------------
\* The input texts: concatenations of at most MaxFrags fragments.

Fragments ==
    { <<"S","E","L","E","C","T"," ","a">>,
      <<"s","e","l","e","c","t">>,
      <<"a">>,
      <<" ">>,
      <<NL>>,
      <<";">>,
      <<"-","-">>,
      <<"/","*">>,
      <<"*","/">>,
      <<"U","n","i","o","n">>,
      <<"D","R","O","P">>,
      <<"U","p","d","a","t","e">>,
      <<"(">>,
      <<APOS>> }

RECURSIVE Texts(_)
Texts(n) ==
    IF n = 0 THEN {<<>>}
    ELSE Texts(n - 1) \cup {t \o f : t \in Texts(n - 1), f \in Fragments}

\* queries the tests and the description of the validator name
NamedQueries ==
    { <<"D","E","L","E","T","E"," ","F","R","O","M"," ","S","t","u","d","e","n","t","s">>,
      <<"S","E","L","E","C","T"," ","a"," ","F","R","O","M"," ","D","e","l","e","t","e","d">>,
      <<" ","\t",NL>>,
      <<"S","E","L","E","C","T"," ","a"," ","-","/","*","*","/","-"," ","b">>,
      <<"S","E","L","E","C","T"," ","a"," ","/","/","*","*","/","*"," ","x"," ","*","/">> }

Queries == Texts(MaxFrags) \cup NamedQueries

----------------------------------------------------------------------------
\* The pure functions applied to one input text.

InitPure ==
    /\ pq \in Queries
    /\ pvalid = NoResult
    /\ psafe = NoResult
    /\ psan = <<pq>>
    /\ RetryIdle
    /\ EvalIdle
    /\ MultiIdle
    /\ ScoreIdle

\* no function has been applied to pq yet
Fresh == pvalid = NoResult /\ psafe = NoResult /\ Len(psan) = 1

\* validate_query(pq) with the default allow_unsafe=False
Validate ==
    /\ Fresh
    /\ pvalid' = validate_query(pq, FALSE)
    /\ UNCHANGED <<pq, psafe, psan>>
    /\ UNCHANGED <<retryVars, evalVars, loadVars, scoreVars, multiVars>>

\* SQLGuardrails.check_query_safety(pq)
CheckSafety ==
    /\ Fresh
    /\ psafe' = check_query_safety(pq)
    /\ UNCHANGED <<pq, pvalid, psan>>
    /\ UNCHANGED <<retryVars, evalVars, loadVars, scoreVars, multiVars>>

\* SQLGuardrails.sanitize_query applied to the last text of psan
Sanitize ==
    /\ pvalid = NoResult /\ psafe = NoResult
    /\ Len(psan) < 3
    /\ psan' = Append(psan, sanitize_query(psan[Len(psan)]))
    /\ UNCHANGED <<pq, pvalid, psafe>>
    /\ UNCHANGED <<retryVars, evalVars, loadVars, scoreVars, multiVars>>

NextPure == Validate \/ CheckSafety \/ Sanitize

SpecPure == InitPure /\ [][NextPure]_vars

----------------------------------------------------------------------------
\* evaluation/metrics.py: the scoring functions that run_eval.py imports. Their
\* code is not among the sources; they follow the description of the metrics
\* engine. Scores are percentages, 0..100.

\* d.get(key, default)
Get(d, key, default) == IF key \in DOMAIN d THEN d[key] ELSE default

\* the characters, besides whitespace, at which a text is split into tokens
Punctuation == {";", ",", "(", ")", "*", "/", "-", "=", APOS, BTICK}

\* the maximal runs of s without a separator, in order; whitespace separates,
\* and punctuation too when punct is set
RECURSIVE WordSeq(_, _)
WordSeq(s, punct) ==
    LET IsSep(c) == IsSpace(c) \/ (punct /\ c \in Punctuation)
        starts == {i \in 1..Len(s) : ~IsSep(s[i])}
    IN  IF starts = {} THEN <<>>
        ELSE LET a == SetMin(starts)
                 ends == {j \in a..Len(s) : IsSep(s[j])}
                 b == IF ends = {} THEN Len(s) + 1 ELSE SetMin(ends)
             IN  <<SubSeq(s, a, b - 1)>> \o WordSeq(SubSeq(s, b, Len(s)), punct)

\* case-insensitive whitespace normalisation: the upper-cased words of s
Normalized(s) == WordSeq(upper(s), FALSE)

\* the tokens of s, in order
TokenSeq(s) == WordSeq(upper(s), TRUE)

\* the set of tokens of s
Tokens(s) ==
    LET ws == TokenSeq(s)
    IN  {ws[i] : i \in 1..Len(ws)}

\* the n-grams of a token sequence, in order
NGrams(ws, n) ==
    IF Len(ws) < n THEN <<>> ELSE [i \in 1..(Len(ws) - n + 1) |-> SubSeq(ws, i, i + n - 1)]

\* how many items of G are matched in E, an item of E matching once
ClippedMatches(G, E) ==
    Cardinality({i \in 1..Len(G) :
        Cardinality({j \in 1..i : G[j] = G[i]})
            <= Cardinality({j \in 1..Len(E) : E[j] = G[i]})})

\* clipped n-gram precision of the generated tokens, in percent
NGramPrecision(g, e, n) ==
    LET G == NGrams(g, n)
        E == NGrams(e, n)
    IN  (100 * ClippedMatches(G, E)) \div Len(G)

NoMetrics == <<>>

\* exact_match: the normalised texts are identical
calculate_exact_match(generated, expected) ==
    IF Len(Normalized(generated)) > 0 /\ Normalized(generated) = Normalized(expected)
    THEN 100 ELSE 0

\* token_match: intersection over union of the token sets
calculate_token_match(generated, expected) ==
    LET g == Tokens(generated)
        e == Tokens(expected)
    IN  IF g = {} \/ e = {} THEN 0
        ELSE (100 * Cardinality(g \cap e)) \div Cardinality(g \cup e)

\* bleu_score: n-gram precision up to n = 4 with a brevity penalty. The
\* geometric mean of the precisions is taken at its lower end, the least of
\* them, and the penalty as the ratio of the lengths: both are full exactly when
\* every n-gram of the generated text is matched and the text is not shorter.
calculate_bleu_score(generated, expected) ==
    LET g == TokenSeq(generated)
        e == TokenSeq(expected)
        orders == {n \in 1..4 : Len(g) >= n}
        least == SetMin({NGramPrecision(g, e, n) : n \in orders})
    IN  IF Len(g) = 0 \/ Len(e) = 0 THEN 0
        ELSE IF Len(g) < Len(e) THEN (least * Len(g)) \div Len(e)
        ELSE least

\* f1_score: harmonic mean of token precision and token recall
calculate_f1_score(generated, expected) ==
    LET g == TokenSeq(generated)
        e == TokenSeq(expected)
        hit == ClippedMatches(g, e)
    IN  IF hit = 0 THEN 0 ELSE (200 * hit) \div (Len(g) + Len(e))

\* semantic_similarity: an overlap-based similarity, the shared tokens over
\* the larger token set
calculate_semantic_similarity(generated, expected) ==
    LET g == Tokens(generated)
        e == Tokens(expected)
        larger == IF Cardinality(g) >= Cardinality(e) THEN Cardinality(g) ELSE Cardinality(e)
    IN  IF g = {} \/ e = {} THEN 0
        ELSE (100 * Cardinality(g \cap e)) \div larger

\* the scores with only the expected text normalised for exact_match
calculate_all_metrics_half_normalised(generated, expected) ==
    [exact_match |-> IF Len(generated) > 0
                        /\ WordSeq(generated, FALSE) = Normalized(expected)
                     THEN 100 ELSE 0,
     token_match |-> calculate_token_match(generated, expected),
     bleu_score |-> calculate_bleu_score(generated, expected),
     f1_score |-> calculate_f1_score(generated, expected),
     semantic_similarity |-> calculate_semantic_similarity(generated, expected)]

calculate_all_metrics(generated, expected) ==
    [exact_match |-> calculate_exact_match(generated, expected),
     token_match |-> calculate_token_match(generated, expected),
     bleu_score |-> calculate_bleu_score(generated, expected),
     f1_score |-> calculate_f1_score(generated, expected),
     semantic_similarity |-> calculate_semantic_similarity(generated, expected)]

MetricNames == <<"exact_match", "token_match", "bleu_score", "f1_score", "semantic_similarity">>

\* the default weights, in percent: they sum to 100
DefaultWeights ==
    [exact_match |-> 10, token_match |-> 20, bleu_score |-> 20,
     f1_score |-> 25, semantic_similarity |-> 25]

\* the weighted sum of the scores: a score without a weight is ignored, a
\* weight without a score counts nothing
RECURSIVE WeightedSum(_, _, _)
WeightedSum(scores, weights, names) ==
    IF Len(names) = 0 THEN 0
    ELSE Get(scores, names[1], 0) * Get(weights, names[1], 0)
            + WeightedSum(scores, weights, Tail(names))

calculate_composite_score(metrics) ==
    WeightedSum(metrics, DefaultWeights, MetricNames) \div 100

calculate_sql_correctness(execution_success, is_valid) ==
    IF is_valid /\ execution_success THEN 100
    ELSE IF is_valid THEN 50
    ELSE 0

RECURSIVE SumOf(_, _)
SumOf(rs, key) ==
    IF Len(rs) = 0 THEN 0 ELSE Get(rs[1], key, 0) + SumOf(Tail(rs), key)

Pct(part, total) == IF total = 0 THEN 0 ELSE (100 * part) \div total

NoError == <<"None", "">>

\* the sum of one similarity metric over the records that were scored
RECURSIVE SumOfMetric(_, _)
SumOfMetric(rs, name) ==
    IF Len(rs) = 0 THEN 0
    ELSE Get(Get(rs[1], "similarity_metrics", NoMetrics), name, 0)
            + SumOfMetric(Tail(rs), name)

\* the average of each similarity metric over the records that had a reference query
AverageMetrics(rs) ==
    LET scored == Cardinality({i \in 1..Len(rs) :
                     Get(rs[i], "similarity_metrics", NoMetrics) # NoMetrics})
    IN  IF scored = 0 THEN NoMetrics
        ELSE [name \in {MetricNames[i] : i \in 1..Len(MetricNames)} |->
                 SumOfMetric(rs, name) \div scored]

calculate_metrics_summary(rs) ==
    LET total == Len(rs)
        valid == Cardinality({i \in 1..total : Get(rs[i], "is_valid", FALSE)})
        ran == Cardinality({i \in 1..total : Get(rs[i], "execution_success", FALSE)})
        errors == Cardinality({i \in 1..total : Get(rs[i], "error", NoError) # NoError})
    IN  [total_tests |-> total,
         valid_queries |-> valid,
         valid_queries_pct |-> Pct(valid, total),
         executed |-> ran,
         executed_pct |-> Pct(ran, total),
         errors |-> errors,
         error_pct |-> Pct(errors, total),
         similarity_metrics |-> AverageMetrics(rs),
         composite_score |-> IF total = 0 THEN 0 ELSE SumOf(rs, "composite_score") \div total]

\* The metrics engine applied to one pair of texts.

\* the pieces the generated texts are made of
ScoreFragments ==
    { <<"S","E","L","E","C","T"," ","a"," ">>,
      <<"s","e","l","e","c","t"," "," ">>,
      <<"F","R","O","M"," ","t"," ">>,
      <<"a",","," ","b"," ">>,
      <<"a"," ">>,
      <<NL>> }

RECURSIVE ScoreTexts(_)
ScoreTexts(n) ==
    IF n = 0 THEN {<<>>}
    ELSE ScoreTexts(n - 1) \cup {t \o f : t \in ScoreTexts(n - 1), f \in ScoreFragments}

\* the reference queries
ExpectedQueries ==
    { <<"S","E","L","E","C","T"," ","a"," ","F","R","O","M"," ","t">>,
      <<"s","e","l","e","c","t"," "," ","a",","," ","b"," ","F","R","O","M"," ","t"," ">>,
      <<"S","E","L","E","C","T"," ","a"," ","a"," ","F","R","O","M"," ","t"," ","a">>,
      <<"S","E","L","E","C","T"," ","a">>,
      <<"a">> }

\* scores and composite of one pair
ScoreOf(generated, expected) ==
    LET metrics == calculate_all_metrics(generated, expected)
    IN  [metrics |-> metrics, composite |-> calculate_composite_score(metrics)]

InitScore ==
    /\ sgen \in ScoreTexts(MaxWords)
    /\ sexp \in ExpectedQueries
    /\ spair = NoScore
    /\ sself = NoScore
    /\ PureIdle
    /\ RetryIdle
    /\ EvalIdle
    /\ MultiIdle

\* the generated text is scored against the expected one
ScorePair ==
    /\ spair = NoScore
    /\ spair' = ScoreOf(sgen, sexp)
    /\ UNCHANGED <<sgen, sexp, sself>>
    /\ UNCHANGED <<pureVars, retryVars, evalVars, loadVars, multiVars>>

\* the expected text is scored against itself
ScoreSelf ==
    /\ sself = NoScore
    /\ sself' = ScoreOf(sexp, sexp)
    /\ UNCHANGED <<sgen, sexp, spair>>
    /\ UNCHANGED <<pureVars, retryVars, evalVars, loadVars, multiVars>>

NextScore == ScorePair \/ ScoreSelf

SpecScore == InitScore /\ [][NextScore]_vars

----------------------------------------------------------------------------
\* evaluation/run_eval.py: run_evaluation

\* `if is_valid:` the query is executed whenever validate_query accepts it
ShouldExecute(generated_query) == validate_query(generated_query, FALSE).ok

\* the record of a test case whose generation raised, put in front of the list
GenerationFailedInFront(rs, test_case, model_name, err) ==
    <<[test_id |-> test_case.id,
       model |-> model_name,
       question |-> test_case.question,
       expected_query |-> test_case.expected_query,
       error |-> <<"Generation failed", err>>]>> \o rs

\* the record of a test case whose generation raised, dropped instead of appended
GenerationFailedDropped(rs, test_case, model_name, err) == rs

\* the except branch of the loop body: the record of a test case that raised
GenerationFailed(rs, test_case, model_name, err) ==
    Append(rs, [test_id |-> test_case.id,
                model |-> model_name,
                question |-> test_case.question,
                expected_query |-> test_case.expected_query,
                error |-> <<"Generation failed", err>>])

\* the error of the record with the text of the executor's exception wrapped
ExecutionErrorWrapped(runs, db) ==
    IF runs /\ db.kind = "raise" THEN <<"Execution failed", db.err>> ELSE NoError

\* error_msg: None, or str(e) of the exception execute_query raised
ExecutionError(runs, db) ==
    IF runs /\ db.kind = "raise" THEN <<"raw", db.err>> ELSE NoError

\* result_rows = len(result) if isinstance(result, list) else 0
ResultRows(result) == IF result.kind = "list" THEN result.rows ELSE 0

\* the try branch of the loop body: the record of a test case whose generation
\* returned generated_query; db is what execute_query does if it is called
Evaluated(rs, test_case, model_name, generated_query, db) ==
    LET validation == validate_query(generated_query, FALSE)
        is_valid == validation.ok
        runs == ShouldExecute(generated_query)
        execution_success == runs /\ db.kind # "raise"
        error_msg == ExecutionError(runs, db)
        result_rows == IF execution_success THEN ResultRows(db) ELSE 0
        scored == Len(test_case.expected_query) > 0
        similarity_metrics ==
            IF scored THEN calculate_all_metrics(generated_query, test_case.expected_query)
            ELSE NoMetrics
    IN  Append(rs, [test_id |-> test_case.id,
                    model |-> model_name,
                    question |-> test_case.question,
                    generated_query |-> generated_query,
                    expected_query |-> test_case.expected_query,
                    is_valid |-> is_valid,
                    validation_msg |-> validation.msg,
                    execution_success |-> execution_success,
                    error |-> error_msg,
                    result_rows |-> result_rows,
                    similarity_metrics |-> similarity_metrics,
                    sql_correctness_score |->
                        IF scored THEN calculate_sql_correctness(execution_success, is_valid)
                        ELSE 0,
                    composite_score |->
                        IF similarity_metrics # NoMetrics
                        THEN calculate_composite_score(similarity_metrics) ELSE 0])

\* execute_query was not called for the test case
NotCalled == [kind |-> "none", rows |-> 0, err |-> ""]

\* the name of the model run_evaluation is evaluating
ModelName == IF mpc = "run" THEN models[midx] ELSE "default"

\* results = []; connection, cursor = get_database_connection(db_path)
EvalConnect ==
    /\ epc = "start"
    /\ \/ /\ conn' = "open"
          /\ epc' = "loop"
       \/ /\ conn' = conn
          /\ epc' = "raised"
    /\ tidx' = 1
    /\ results' = <<>>
    /\ trace' = <<>>
    /\ UNCHANGED <<dataset, inferOutcomes, dbOutcomes, executed>>
    /\ UNCHANGED <<pureVars, retryVars, loadVars, scoreVars, multiVars>>

\* one pass of `for test_case in dataset`
EvalTestCase ==
    /\ epc = "loop"
    /\ tidx <= Len(dataset)
    /\ \E outcome \in inferOutcomes : \E db \in dbOutcomes :
          /\ IF outcome.kind = "raise"
             THEN /\ results' = GenerationFailed(results, dataset[tidx], ModelName, outcome.err)
                  /\ executed' = executed
             ELSE /\ results' = Evaluated(results, dataset[tidx], ModelName, outcome.text, db)
                  /\ executed' = IF ShouldExecute(outcome.text)
                                 THEN Append(executed, [query |-> outcome.text, did |-> db])
                                 ELSE executed
          /\ trace' = Append(trace, [infer |-> outcome,
                                      db |-> IF outcome.kind = "text"
                                                /\ ShouldExecute(outcome.text)
                                             THEN db ELSE NotCalled])
    /\ tidx' = tidx + 1
    /\ UNCHANGED <<dataset, inferOutcomes, dbOutcomes, conn, epc>>
    /\ UNCHANGED <<pureVars, retryVars, loadVars, scoreVars, multiVars>>

\* a KeyboardInterrupt (or another BaseException that is no Exception) arrives
\* during the pass: neither `except Exception` catches it and no finally
\* closes the connection
EvalInterrupt ==
    /\ epc = "loop"
    /\ tidx <= Len(dataset)
    /\ epc' = "interrupted"
    /\ UNCHANGED <<dataset, inferOutcomes, dbOutcomes, tidx, results, executed, conn, trace>>
    /\ UNCHANGED <<pureVars, retryVars, loadVars, scoreVars, multiVars>>

\* connection.close(); return results
EvalClose ==
    /\ epc = "loop"
    /\ tidx > Len(dataset)
    /\ conn' = "closed"
    /\ epc' = "returned"
    /\ UNCHANGED <<dataset, inferOutcomes, dbOutcomes, tidx, results, executed, trace>>
    /\ UNCHANGED <<pureVars, retryVars, loadVars, scoreVars, multiVars>>

\* the test cases of the datasets
TestCases ==
    { [id |-> 1, question |-> "q1", expected_query |-> <<"S","E","L","E","C","T"," ","a">>],
      [id |-> 2, question |-> "q2", expected_query |-> <<>>],
      [id |-> 3, question |-> "q3", expected_query |-> <<"s","e","l","e","c","t"," "," ","a">>] }

\* the datasets: at most MaxTests test cases, no test case twice
Datasets ==
    { d \in UNION { [1..n -> TestCases] : n \in 0..MaxTests } :
        \A i, j \in 1..Len(d) : i # j => d[i] # d[j] }

\* the texts an inference function returns
InferenceTexts ==
    { <<"S","E","L","E","C","T"," ","a">>,
      <<"s","e","l","e","c","t"," ","a"," ","U","n","i","o","n"," ","s","e","l","e","c","t"," ","a">>,
      <<BTICK,BTICK,BTICK,"s","q","l",NL,"S","E","L","E","C","T"," ","a",NL,BTICK,BTICK,BTICK>>,
      <<"D","R","O","P"," ","a">> }

\* what a call of an inference function handed to run_evaluation does: it
\* returns a text or raises; model tells what the model call behind it did
InferenceOutcomes ==
    [kind : {"text"}, text : InferenceTexts, err : {""}, model : {"direct"}]
        \cup [kind : {"raise"}, text : {<<>>}, err : {"timeout"}, model : {"direct"}]

\* evaluation/evaluate_models.py: get_inference_function

ERROR_PREFIX == <<"E","r","r","o","r",":"," ">>

\* what loading the model and asking it for a response does: the response is
\* returned, or get_llm_model or get_response_from_llm_model raises
ModelCalls ==
    [kind : {"text"},
     text : { <<"S","E","L","E","C","T"," ","a">>,
              <<BTICK,BTICK,BTICK,"s","q","l",NL,"S","E","L","E","C","T"," ","a",NL,BTICK,BTICK,BTICK>> },
     err : {<<>>}]
        \cup [kind : {"raise"}, text : {<<>>},
               err : { <<"t","i","m","e","o","u","t">>,
                       <<"m","o","d","e","l"," ","n","o","t"," ","f","o","u","n","d">> }]

\* inference_fn(question): the response, or the text "Error: " and str(e)
\* when the model call raised; it never raises itself
inference_fn(call) ==
    IF call.kind = "raise"
    THEN [kind |-> "text", text |-> ERROR_PREFIX \o call.err, err |-> "", model |-> "raised"]
    ELSE [kind |-> "text", text |-> call.text, err |-> "", model |-> "returned"]

\* what a call of the inference function built by get_inference_function does
EvaluateModelsOutcomes == {inference_fn(call) : call \in ModelCalls}

\* what execute_query does: it returns the cursor, which will yield some rows, or raises
ExecuteOutcomes ==
    [kind : {"cursor"}, rows : 0..MaxRows, err : {""}]
        \cup [kind : {"raise"}, rows : {0}, err : {"no such table"}]

\* evaluation/metrics.py: load_evaluation_dataset. The file at filepath is
\* absent, not permitted to the process, not JSON, or JSON holding a dataset.
\* open() raises FileNotFoundError or PermissionError, json.load raises
\* JSONDecodeError; only FileNotFoundError is caught.
load_evaluation_dataset(f) ==
    CASE f.kind = "absent"  -> [raised |-> FALSE, value |-> <<>>, err |-> "None"]
      [] f.kind = "denied"  -> [raised |-> TRUE, value |-> <<>>, err |-> "PermissionError"]
      [] f.kind = "garbled" -> [raised |-> TRUE, value |-> <<>>, err |-> "JSONDecodeError"]
      [] f.kind = "json"    -> [raised |-> FALSE, value |-> f.content, err |-> "None"]

\* the files a dataset path may name
Files ==
    [kind : {"absent", "denied", "garbled"}, content : {<<>>}]
        \cup [kind : {"json"}, content : Datasets]

\* dataset = load_evaluation_dataset(filepath), then run_evaluation over it
LoadDataset ==
    /\ lpc = "start"
    /\ LET r == load_evaluation_dataset(file)
       IN  IF r.raised
           THEN /\ lpc' = "raised"
                /\ UNCHANGED <<dataset, epc>>
           ELSE /\ lpc' = "returned"
                /\ dataset' = r.value
                /\ epc' = "start"
    /\ UNCHANGED <<file, inferOutcomes, dbOutcomes, tidx, results, executed, conn, trace>>
    /\ UNCHANGED <<pureVars, retryVars, scoreVars, multiVars>>

InitEval ==
    /\ file \in Files
    /\ lpc = "start"
    /\ dataset = <<>>
    /\ inferOutcomes \in {InferenceOutcomes, EvaluateModelsOutcomes}
    /\ dbOutcomes = ExecuteOutcomes
    /\ tidx = 0
    /\ results = <<>>
    /\ executed = <<>>
    /\ conn = "none"
    /\ epc = "idle"
    /\ trace = <<>>
    /\ PureIdle
    /\ RetryIdle
    /\ MultiIdle
    /\ ScoreIdle

NextEval == LoadDataset \/ EvalConnect \/ EvalTestCase \/ EvalInterrupt \/ EvalClose

SpecEval == InitEval /\ [][NextEval]_vars

----------------------------------------------------------------------------
\* evaluation/run_eval.py: run_multi_model_evaluation and _calculate_model_comparison

\* d[key] = value
Put(d, key, value) == [k \in DOMAIN d \cup {key} |-> IF k = key THEN value ELSE d[k]]

\* the keys of the dict d in insertion order: the models are inserted in list order
KeysInOrder(d, order) == SelectSeq(order, LAMBDA name : name \in DOMAIN d)

NoBest == [model |-> "None", score |-> -1]

\* the best model of one criterion where a later model takes over with an equal value
RECURSIVE BestOfLastWins(_, _, _, _)
BestOfLastWins(summaries, order, key, best) ==
    IF Len(order) = 0 THEN best
    ELSE LET name == order[1]
             summary == summaries[name]
             value == Get(summary, key, 0)
         IN  IF "error" \in DOMAIN summary
             THEN BestOfLastWins(summaries, Tail(order), key, best)
             ELSE IF value >= best.score
             THEN BestOfLastWins(summaries, Tail(order), key, [model |-> name, score |-> value])
             ELSE BestOfLastWins(summaries, Tail(order), key, best)

\* the best model of one criterion over the summaries without an error marker,
\* taken in order: a later model takes over only with a greater value
RECURSIVE BestOf(_, _, _, _)
BestOf(summaries, order, key, best) ==
    IF Len(order) = 0 THEN best
    ELSE LET name == order[1]
             summary == summaries[name]
             value == Get(summary, key, 0)
         IN  IF "error" \in DOMAIN summary
             THEN BestOf(summaries, Tail(order), key, best)
             ELSE IF value > best.score
             THEN BestOf(summaries, Tail(order), key, [model |-> name, score |-> value])
             ELSE BestOf(summaries, Tail(order), key, best)

\* the metrics_by_model entry of one model
ComparedMetrics(summary) ==
    [composite_score |-> Get(summary, "composite_score", 0),
     executed_pct |-> Get(summary, "executed_pct", 0),
     valid_queries_pct |-> Get(summary, "valid_queries_pct", 0),
     similarity_metrics |-> Get(summary, "similarity_metrics", NoMetrics)]

\* the comparison without the `continue` for a summary with an error marker in
\* the part that fills metrics_by_model
calculate_model_comparison_with_failed(summaries, order) ==
    LET keys == KeysInOrder(summaries, order)
    IN  [best_models |->
            [composite_score |-> BestOf(summaries, keys, "composite_score", NoBest),
             execution_rate |-> BestOf(summaries, keys, "executed_pct", NoBest),
             validity_rate |-> BestOf(summaries, keys, "valid_queries_pct", NoBest)],
         metrics_by_model |->
            [name \in DOMAIN summaries |-> ComparedMetrics(summaries[name])]]

calculate_model_comparison(summaries, order) ==
    LET keys == KeysInOrder(summaries, order)
        compared == {name \in DOMAIN summaries : "error" \notin DOMAIN summaries[name]}
    IN  [best_models |->
            [composite_score |-> BestOf(summaries, keys, "composite_score", NoBest),
             execution_rate |-> BestOf(summaries, keys, "executed_pct", NoBest),
             validity_rate |-> BestOf(summaries, keys, "valid_queries_pct", NoBest)],
         metrics_by_model |->
            [name \in compared |-> ComparedMetrics(summaries[name])]]

\* the except branch of the model loop, leaving the failed model out of model_summaries
CaughtDropped(summaries, model_name, err) == summaries

\* the except branch of the model loop: the error summary of the model
Caught(summaries, model_name, err) ==
    Put(summaries, model_name, [model |-> model_name, error |-> err])

\* summary["model"] = model_name
WithModel(summary, model_name) == Put(summary, "model", model_name)

\* the loop goes on with the next model
NextModel ==
    /\ midx' = midx + 1
    /\ mpc' = "build"

\* inference_fn = get_inference_fn(model_config), which may raise
MultiBuild ==
    /\ mpc = "build"
    /\ midx <= Len(models)
    /\ \/ /\ inferOutcomes' \in {{o} : o \in InferenceOutcomes}
          /\ mpc' = "run"
          /\ epc' = "start"
          /\ UNCHANGED <<midx, model_summaries, stageFailed>>
       \/ /\ model_summaries' = Caught(model_summaries, models[midx], "cannot build")
          /\ stageFailed' = stageFailed \cup {models[midx]}
          /\ NextModel
          /\ UNCHANGED <<inferOutcomes, epc>>
    /\ UNCHANGED <<models, all_results, comparison>>
    /\ UNCHANGED <<dataset, dbOutcomes, tidx, results, executed, conn, trace>>
    /\ UNCHANGED <<pureVars, retryVars, loadVars, scoreVars>>

\* run_evaluation is over: it returned its results, or it raised an Exception,
\* which the model loop catches, or an interrupt went through it, which
\* `except Exception` does not catch
MultiRan ==
    /\ mpc = "run"
    /\ \/ /\ epc = "returned"
          /\ mpc' = "summarise"
          /\ UNCHANGED <<midx, model_summaries, stageFailed>>
       \/ /\ epc = "raised"
          /\ model_summaries' = Caught(model_summaries, models[midx], "cannot connect")
          /\ stageFailed' = stageFailed \cup {models[midx]}
          /\ NextModel
       \/ /\ epc = "interrupted"
          /\ mpc' = "interrupted"
          /\ UNCHANGED <<midx, model_summaries, stageFailed>>
    /\ epc' = "idle"
    /\ UNCHANGED <<models, all_results, comparison>>
    /\ UNCHANGED <<dataset, inferOutcomes, dbOutcomes, tidx, results, executed, conn, trace>>
    /\ UNCHANGED <<pureVars, retryVars, loadVars, scoreVars>>

\* summary = calculate_metrics_summary(results), which may raise; then the
\* results and the summary are stored under the name of the model
MultiSummarise ==
    /\ mpc = "summarise"
    /\ \/ /\ all_results' = Put(all_results, models[midx], results)
          /\ model_summaries' =
                Put(model_summaries, models[midx],
                    WithModel(calculate_metrics_summary(results), models[midx]))
          /\ mpc' = "log"
          /\ UNCHANGED <<midx, stageFailed>>
       \/ /\ model_summaries' = Caught(model_summaries, models[midx], "cannot summarise")
          /\ stageFailed' = stageFailed \cup {models[midx]}
          /\ NextModel
          /\ UNCHANGED all_results
    /\ UNCHANGED <<models, comparison>>
    /\ UNCHANGED evalVars
    /\ UNCHANGED <<pureVars, retryVars, loadVars, scoreVars>>

\* log_model_summary or print_evaluation_summary, still inside the try: it may raise
MultiLog ==
    /\ mpc = "log"
    /\ \/ UNCHANGED model_summaries
       \/ model_summaries' = Caught(model_summaries, models[midx], "cannot print")
    /\ NextModel
    /\ UNCHANGED <<models, all_results, stageFailed, comparison>>
    /\ UNCHANGED evalVars
    /\ UNCHANGED <<pureVars, retryVars, loadVars, scoreVars>>

\* the loop is over: comparison = _calculate_model_comparison(model_summaries); return
MultiReturn ==
    /\ mpc = "build"
    /\ midx > Len(models)
    /\ comparison' = calculate_model_comparison(model_summaries, models)
    /\ mpc' = "returned"
    /\ UNCHANGED <<models, midx, all_results, model_summaries, stageFailed>>
    /\ UNCHANGED evalVars
    /\ UNCHANGED <<pureVars, retryVars, loadVars, scoreVars>>

\* main of evaluate_models.py, after run_multi_model_evaluation has returned:
\* print_model_comparison(evaluation_results.get("comparison", {})), outside any try
MainPrintComparison ==
    /\ mpc = "returned"
    /\ mpc' = "printed"
    /\ UNCHANGED <<models, midx, all_results, model_summaries, stageFailed, comparison>>
    /\ UNCHANGED evalVars
    /\ UNCHANGED <<pureVars, retryVars, loadVars, scoreVars>>

\* the parameters of EvaluationReportGenerator.__init__, besides self
ReportGeneratorParams == {"output_dir"}

\* the call of the constructor with the given keyword arguments: a keyword
\* that is not a parameter is a TypeError
EvaluationReportGenerator_init(keywords) ==
    IF keywords \subseteq ReportGeneratorParams THEN "built" ELSE "TypeError"

\* report_gen = EvaluationReportGenerator(output_dir=args.output, logger=logger),
\* between the two try blocks of main: what it raises leaves main. The try
\* block with generate_all_reports and both return statements come after it.
MainBuildReportGenerator ==
    /\ mpc = "printed"
    /\ mpc' = IF EvaluationReportGenerator_init({"output_dir", "logger"}) = "built"
              THEN "reporting"
              ELSE "propagated"
    /\ UNCHANGED <<models, midx, all_results, model_summaries, stageFailed, comparison>>
    /\ UNCHANGED evalVars
    /\ UNCHANGED <<pureVars, retryVars, loadVars, scoreVars>>

ModelPool == <<"phi", "llama3", "mistral", "gemma">>

\* the test cases in the order of their ids
TestPool ==
    [i \in 1..3 |-> CHOOSE tc \in TestCases : tc.id = i]

InitMulti ==
    /\ models \in {SubSeq(ModelPool, 1, n) : n \in 0..MaxModels}
    /\ midx = 1
    /\ mpc = "build"
    /\ all_results = <<>>
    /\ model_summaries = <<>>
    /\ stageFailed = {}
    /\ comparison = NoComparison
    /\ dataset \in {SubSeq(TestPool, 1, n) : n \in 0..MaxTests}
    /\ inferOutcomes = {}
    /\ dbOutcomes \in {{x} : x \in ExecuteOutcomes}
    /\ tidx = 0
    /\ results = <<>>
    /\ executed = <<>>
    /\ conn = "none"
    /\ epc = "idle"
    /\ trace = <<>>
    /\ LoadIdle
    /\ PureIdle
    /\ RetryIdle
    /\ ScoreIdle

NextMulti ==
    \/ MultiBuild
    \/ MultiRan
    \/ MultiSummarise
    \/ MultiLog
    \/ MultiReturn
    \/ MainPrintComparison
    \/ MainBuildReportGenerator
    \/ EvalConnect
    \/ EvalTestCase
    \/ EvalInterrupt
    \/ EvalClose

SpecMulti == InitMulti /\ [][NextMulti]_vars

----------------------------------------------------------------------------
\* Properties of the validator and of the guardrail (SpecPure).

\* the eight deny-listed keywords, as the claim lists them
DenyListed ==
    { <<"D","R","O","P">>, <<"D","E","L","E","T","E">>,
      <<"T","R","U","N","C","A","T","E">>, <<"A","L","T","E","R">>,
      <<"I","N","S","E","R","T">>, <<"U","P","D","A","T","E">>,
      <<"C","R","E","A","T","E">>, <<"M","O","D","I","F","Y">> }

\* C4: a query that validate_query (allow_unsafe=False) reports valid starts,
\* trimmed and upper-cased, with SELECT, and upper-cased contains none of the
\* eight deny-listed keywords anywhere.
C4_ValidIsSelectWithoutKeywords ==
    pvalid.ok =>
        /\ startswith(upper(strip(pq)), KW_SELECT)
        /\ \A kw \in DenyListed : ~contains(upper(pq), kw)

\* validate_query has accepted a lower-case query with leading whitespace
C4_Witness ==
    /\ pvalid.ok
    /\ IsSpace(pq[1])
    /\ \E i \in 1..Len(pq) : pq[i] = "s"

\* a character that belongs to a statement: neither whitespace nor a semicolon
IsContent(q, i) == ~IsSpace(q[i]) /\ q[i] # ";"

\* no semicolon in q[a..b]
NoSemicolon(q, a, b) == \A k \in a..b : q[k] # ";"

\* a semicolon of q separates two segments that are non-empty after trimming
HasTwoStatements(q) ==
    \E i \in 1..Len(q) :
        /\ q[i] = ";"
        /\ \E a \in 1..(i - 1) : IsContent(q, a) /\ NoSemicolon(q, a, i - 1)
        /\ \E b \in (i + 1)..Len(q) : IsContent(q, b) /\ NoSemicolon(q, i + 1, b)

\* all the content of q lies in one segment
HasSingleStatement(q) ==
    \A a, b \in 1..Len(q) :
        (a < b /\ IsContent(q, a) /\ IsContent(q, b)) => NoSemicolon(q, a, b)

\* C5: a query in which a semicolon separates two non-empty segments is
\* reported unsafe whatever the segments are, and a query with a single
\* statement is not rejected by the multiple-statement rule.
C5_StackedStatementsUnsafe ==
    psafe # NoResult =>
        /\ HasTwoStatements(pq) => ~psafe.ok
        /\ HasSingleStatement(pq) =>
              psafe.msg[1] # "Multiple SQL statements are not allowed"

\* two harmless SELECTs, rejected by the multiple-statement rule
C5_Witness ==
    /\ pq = <<"S","E","L","E","C","T"," ","a",";","S","E","L","E","C","T"," ","a">>
    /\ psafe = [ok |-> FALSE, msg |-> <<"Multiple SQL statements are not allowed", "">>]

\* q holds a dash-dash comment or a complete block comment
HasComment(q) ==
    \/ contains(q, LINE_COMMENT)
    \/ \E i \in 1..Len(q) : \E j \in (i + 2)..Len(q) :
          MatchAt(q, BLOCK_OPEN, i) /\ MatchAt(q, BLOCK_CLOSE, j)

\* C6: every query that holds a dash-dash comment or a block comment, wherever
\* it sits (at the end of the text without a newline, or over several lines),
\* is reported unsafe.
C6_CommentsUnsafe ==
    (psafe # NoResult /\ HasComment(pq)) => ~psafe.ok

\* q holds UNION and, later, SELECT, in any letter case
HasUnionThenSelect(q) ==
    \E i \in 1..Len(q) : \E j \in (i + 5)..Len(q) :
        MatchAt(upper(q), KW_UNION, i) /\ MatchAt(upper(q), KW_SELECT, j)

\* C7: every query in which UNION is followed later by SELECT, in any letter
\* case and with any text between them, line breaks included, is reported unsafe.
C7_UnionSelectUnsafe ==
    (psafe # NoResult /\ HasUnionThenSelect(pq)) => ~psafe.ok

\* C9: sanitize_query is idempotent: sanitizing a sanitized text changes nothing.
C9_SanitizeIdempotent ==
    Len(psan) = 3 => psan[3] = psan[2]

----------------------------------------------------------------------------
\* Properties of attempt_sql_generation (SpecRetry).

\* C1: attempt_sql_generation returns success=True only together with a query
\* that passes validate_query (allow_unsafe=False) and check_query_safety.
C1_SuccessOnlyForGatedQuery ==
    (rpc = "returned" /\ rret.success) =>
        /\ validate_query(rret.query, FALSE).ok
        /\ check_query_safety(rret.query).ok

\* success on a later attempt, after an attempt whose candidate was valid but unsafe
C1_Witness ==
    /\ rpc = "returned"
    /\ rret.success
    /\ calls > 1
    /\ \E k \in 1..Len(outcomes) :
          /\ outcomes[k].kind = "text"
          /\ validate_query(clean_sql_from_response(outcomes[k].text), FALSE).ok
          /\ ~check_query_safety(clean_sql_from_response(outcomes[k].text)).ok

\* C3: one call of attempt_sql_generation with max_retries = N invokes the
\* generator at most N times (never, when N is not positive).
C3_AtMostNCalls ==
    /\ calls = Len(outcomes)
    /\ max_retries >= 0 => calls <= max_retries
    /\ max_retries < 0 => calls = 0

\* all N = 3 attempts used, with a raise, an invalid and an unsafe outcome among them
C3_Witness ==
    /\ rpc = "returned"
    /\ max_retries = 3
    /\ calls = 3
    /\ \E i, j, k \in 1..3 :
          /\ outcomes[i].kind = "raise"
          /\ outcomes[j].kind = "text"
          /\ ~validate_query(clean_sql_from_response(outcomes[j].text), FALSE).ok
          /\ outcomes[k].kind = "text"
          /\ validate_query(clean_sql_from_response(outcomes[k].text), FALSE).ok
          /\ ~check_query_safety(clean_sql_from_response(outcomes[k].text)).ok

----------------------------------------------------------------------------
\* Properties of run_evaluation (SpecEval) and of run_multi_model_evaluation
\* (SpecMulti).

\* C2: run_evaluation hands a query to execute_query only if the query is valid
\* under validate_query and safe under check_query_safety.
C2_ExecutedOnlyIfValidAndSafe ==
    \A k \in 1..Len(executed) :
        /\ validate_query(executed[k].query, FALSE).ok
        /\ check_query_safety(executed[k].query).ok

\* C8: run_evaluation does not raise because of a test case and returns exactly
\* one record per test case, whatever the inference function and the executor do.
C8_OneRecordPerTestCase ==
    /\ epc = "returned" => Len(results) = Len(dataset)
    /\ epc = "loop" => Len(results) = tidx - 1
    /\ epc = "raised" => (results = <<>> /\ executed = <<>> /\ conn = "none")

\* a finished pass over two test cases: one generation raised, one execution raised
C8_Witness ==
    /\ epc = "returned"
    /\ Len(dataset) = 2
    /\ \E i, j \in 1..Len(results) :
          /\ results[i].error[1] = "Generation failed"
          /\ results[j].error[1] = "raw"

\* C10: an exception raised while building the inference function of a model,
\* running its evaluation or summarising it is caught at the model loop: the
\* model gets a summary with an error marker, the later models are still
\* evaluated, and on return model_summaries has an entry for every model while
\* all_results holds exactly the models for which none of these raised.
C10_ModelFailureIsolated ==
    /\ \A name \in stageFailed :
          /\ name \in DOMAIN model_summaries
          /\ "error" \in DOMAIN model_summaries[name]
          /\ name \notin DOMAIN all_results
    /\ mpc \in {"build", "returned"} =>
          /\ DOMAIN model_summaries = {models[i] : i \in 1..(midx - 1)}
          /\ DOMAIN all_results = {models[i] : i \in 1..(midx - 1)} \ stageFailed
    /\ mpc = "returned" => midx = Len(models) + 1

\* the first model failed, the second was evaluated over a non-empty dataset
C10_Witness ==
    /\ mpc = "returned"
    /\ Len(models) = 2
    /\ stageFailed = {models[1]}
    /\ Len(dataset) > 0
    /\ DOMAIN all_results = {models[2]}
    /\ Len(all_results[models[2]]) = Len(dataset)
    /\ "error" \notin DOMAIN model_summaries[models[2]]

----------------------------------------------------------------------------
\* Properties of load_evaluation_dataset (SpecEval).

\* C11: loading a dataset file that is absent, not permitted or not parseable
\* returns an empty sequence to the caller and raises nothing.
C11_UnreadableFileLoadsEmpty ==
    (file.kind \in {"absent", "denied", "garbled"} /\ lpc # "start") =>
        (lpc = "returned" /\ dataset = <<>>)

----------------------------------------------------------------------------
\* Properties of _calculate_model_comparison (SpecMulti).

\* the models whose summary has no error marker
Compared == {name \in DOMAIN model_summaries : "error" \notin DOMAIN model_summaries[name]}

\* the place of a model in the iteration order of model_summaries: the models
\* have distinct names and are inserted in the order of the list
PlaceOf(name) == CHOOSE i \in 1..Len(models) : models[i] = name

\* best is the first of the compared models with the greatest value of key
IsFirstGreatest(best, key) ==
    IF Compared = {}
    THEN best = NoBest
    ELSE /\ best.model \in Compared
         /\ best.score = Get(model_summaries[best.model], key, 0)
         /\ \A other \in Compared :
               LET value == Get(model_summaries[other], key, 0)
               IN  /\ value <= best.score
                   /\ value = best.score => PlaceOf(best.model) <= PlaceOf(other)

\* C12: for each of composite_score, executed_pct and valid_queries_pct the
\* comparison names as best the model with the greatest value among the models
\* without an error marker, and of several models with that value the one that
\* comes first in the iteration order of model_summaries.
C12_BestIsFirstGreatest ==
    mpc = "returned" =>
        /\ IsFirstGreatest(comparison.best_models.composite_score, "composite_score")
        /\ IsFirstGreatest(comparison.best_models.execution_rate, "executed_pct")
        /\ IsFirstGreatest(comparison.best_models.validity_rate, "valid_queries_pct")

\* two compared models: they tie on validity and the first is named, the
\* second has the greater composite score and is named
C12_Witness ==
    /\ mpc = "returned"
    /\ Len(models) = 2
    /\ Compared = {models[1], models[2]}
    /\ model_summaries[models[1]].valid_queries_pct = model_summaries[models[2]].valid_queries_pct
    /\ comparison.best_models.validity_rate.model = models[1]
    /\ model_summaries[models[1]].composite_score < model_summaries[models[2]].composite_score
    /\ comparison.best_models.composite_score.model = models[2]

\* C13: a model whose summary has an error marker is no best model and no key
\* of metrics_by_model, its error summary is in the returned model_summaries,
\* and the keys of metrics_by_model are exactly the models without an error marker.
C13_FailedModelsNotCompared ==
    mpc = "returned" =>
        /\ DOMAIN comparison.metrics_by_model = Compared
        /\ DOMAIN model_summaries = {models[i] : i \in 1..Len(models)}
        /\ \A name \in DOMAIN model_summaries \ Compared :
              /\ name \notin DOMAIN comparison.metrics_by_model
              /\ comparison.best_models.composite_score.model # name
              /\ comparison.best_models.execution_rate.model # name
              /\ comparison.best_models.validity_rate.model # name
              /\ model_summaries[name].model = name

\* the second model failed after the first was compared
C13_Witness ==
    /\ mpc = "returned"
    /\ Len(models) = 2
    /\ Compared = {models[1]}
    /\ "error" \in DOMAIN model_summaries[models[2]]
    /\ DOMAIN comparison.metrics_by_model = {models[1]}
    /\ comparison.best_models.composite_score.model = models[1]

----------------------------------------------------------------------------
\* Properties of the result records of run_evaluation (SpecEval).

\* C14: every result record, the record of a test case whose generation raised
\* included, carries a composite_score within the range of the score (0..100
\* here, for 0..1) that is computed from its own similarity_metrics, and is 0
\* when it has none.
C14_EveryRecordHasCompositeScore ==
    \A k \in 1..Len(results) :
        /\ "composite_score" \in DOMAIN results[k]
        /\ results[k].composite_score \in 0..100
        /\ results[k].composite_score =
              IF Get(results[k], "similarity_metrics", NoMetrics) # NoMetrics
              THEN calculate_composite_score(results[k].similarity_metrics)
              ELSE 0

----------------------------------------------------------------------------
\* Properties of the reasons validate_query reports (SpecPure).

\* q, upper-cased, contains the deny-listed keyword number k
HasKeyword(q, k) == contains(upper(q), DANGEROUS_KEYWORDS[k].text)

\* C15: validate_query reports a query that contains a deny-listed keyword
\* (DELETE FROM Students is one) invalid with a reason that names a dangerous
\* keyword the query contains.
C15_ReasonNamesKeyword ==
    (pvalid # NoResult /\ \E k \in 1..Len(DANGEROUS_KEYWORDS) : HasKeyword(pq, k)) =>
        /\ ~pvalid.ok
        /\ pvalid.msg[1] = "Query contains potentially dangerous keyword"
        /\ \E k \in 1..Len(DANGEROUS_KEYWORDS) :
              HasKeyword(pq, k) /\ pvalid.msg[2] = DANGEROUS_KEYWORDS[k].name

\* C16: validate_query reports every text that is empty or holds only
\* whitespace invalid with the reason that the query is empty.
C16_BlankIsEmpty ==
    (pvalid # NoResult /\ Len(strip(pq)) = 0) =>
        /\ ~pvalid.ok
        /\ pvalid.msg = <<"Query is empty", "">>

----------------------------------------------------------------------------
\* Properties of the metrics engine (SpecScore).

----------------------------------------------------------------------------
\* Properties of the attempts of attempt_sql_generation (SpecRetry).

\* the cleaned candidate of attempt k
Candidate(k) == clean_sql_from_response(outcomes[k].text)

\* attempt k produced a candidate that passes both gates
Passes(k) ==
    /\ outcomes[k].kind = "text"
    /\ validate_query(Candidate(k), FALSE).ok
    /\ check_query_safety(Candidate(k)).ok

\* C18: with max_retries = N >= 1 the generator is called as often as the
\* index of the first attempt whose cleaned candidate passes both gates, and
\* exactly N times when no attempt within N passes; a raise, a validator
\* rejection and a guardrail rejection each use up one attempt of the one counter.
C18_StopsAtFirstPassingAttempt ==
    max_retries >= 1 =>
        /\ \A k \in 1..(calls - 1) : ~Passes(k)
        /\ rpc = "loop" => (attempt = calls + 1 /\ \A k \in 1..calls : ~Passes(k))
        /\ rpc = "returned" =>
              /\ attempt = calls
              /\ IF Passes(calls) THEN rret.success
                 ELSE calls = max_retries /\ ~rret.success

\* success on the third of three attempts, after a raise and a rejection
C18_Witness ==
    /\ rpc = "returned"
    /\ max_retries = 3
    /\ calls = 3
    /\ rret.success
    /\ Passes(3)
    /\ \E i, j \in 1..2 : outcomes[i].kind = "raise" /\ outcomes[j].kind = "text"

\* C19: when all max_retries >= 1 attempts fail, the call returns success=False
\* with the outcome of the final attempt: its cleaned candidate and the reason
\* of the gate that rejected it, or the empty query and the exception text
\* when the final generator call raised; nothing of an earlier attempt is returned.
C19_FailureReportsFinalAttempt ==
    (rpc = "returned" /\ max_retries >= 1 /\ ~rret.success) =>
        /\ calls = max_retries
        /\ IF outcomes[calls].kind = "raise"
           THEN rret.query = <<>> /\ rret.msg = <<"exception", outcomes[calls].err>>
           ELSE /\ rret.query = Candidate(calls)
                /\ rret.msg = IF ~validate_query(Candidate(calls), FALSE).ok
                              THEN validate_query(Candidate(calls), FALSE).msg
                              ELSE check_query_safety(Candidate(calls)).msg

\* two failed attempts with different candidates: the first invalid, the
\* second valid but unsafe, and the second is what is returned
C19_Witness ==
    /\ rpc = "returned"
    /\ max_retries = 2
    /\ ~rret.success
    /\ outcomes[1].kind = "text"
    /\ outcomes[2].kind = "text"
    /\ ~validate_query(Candidate(1), FALSE).ok
    /\ validate_query(Candidate(2), FALSE).ok
    /\ rret.query = Candidate(2)
    /\ rret.msg = check_query_safety(Candidate(2)).msg

----------------------------------------------------------------------------
\* run_evaluation against one attempt of attempt_sql_generation (SpecEval).

\* what attempt_sql_generation with max_retries = 1 returns for a raw output
OneAttempt(raw) == AttemptBody(1, 1, [kind |-> "text", text |-> raw, err |-> ""])

\* C20: for every raw generator output, run_evaluation records is_valid=True
\* and executes the query exactly when attempt_sql_generation with
\* max_retries = 1 returns success=True for that output.
C20_EvalAcceptsAsOneAttempt ==
    \A k \in 1..Len(results) :
        "generated_query" \in DOMAIN results[k] =>
            /\ results[k].is_valid = OneAttempt(results[k].generated_query).success
            /\ (\E j \in 1..Len(executed) :
                    executed[j].query = results[k].generated_query)
                  <=> OneAttempt(results[k].generated_query).success

----------------------------------------------------------------------------
\* Properties of one pass of run_evaluation (SpecEval).

\* C21: with the inference function built by get_inference_function, a test
\* case for which the model call raised gets a record whose error field holds
\* the failure, and the remaining test cases are still processed.
C21_ModelFailureInErrorField ==
    /\ \A k \in 1..Len(results) :
          trace[k].infer.model = "raised" => Get(results[k], "error", NoError) # NoError
    /\ epc = "returned" => Len(results) = Len(dataset)

\* the generated query of record k validated and the executor then raised
ExecutionRaised(k) ==
    /\ trace[k].infer.kind = "text"
    /\ validate_query(trace[k].infer.text, FALSE).ok
    /\ trace[k].db.kind = "raise"

\* C22: when a generated query passes validation and the executor then raises,
\* the record has execution_success=False, the raw error text as error and
\* is_valid=True, and the pass goes on with the next test case.
C22_ExecutionFailureRecorded ==
    /\ Len(trace) = Len(results)
    /\ \A k \in 1..Len(results) :
          ExecutionRaised(k) =>
              /\ results[k].execution_success = FALSE
              /\ results[k].error = <<"raw", trace[k].db.err>>
              /\ results[k].is_valid = TRUE
    /\ epc = "loop" => tidx = Len(results) + 1
    /\ epc = "returned" => Len(results) = Len(dataset)

\* the execution of the first of two test cases raised and the second ran
C22_Witness ==
    /\ epc = "returned"
    /\ Len(dataset) = 2
    /\ ExecutionRaised(1)
    /\ results[1].error = <<"raw", "no such table">>
    /\ results[2].execution_success

\* C23: one call of run_evaluation acquires one connection before the first
\* test case and has closed it whenever control has left run_evaluation, on
\* return and when the pass was abandoned by an exception.
C23_ConnectionReleased ==
    /\ epc = "loop" => conn = "open"
    /\ epc \in {"returned", "raised", "interrupted"} => conn # "open"

\* C24: the records are in dataset order: record i carries the id of test
\* case i, whatever happened to the test cases.
C24_RecordsInDatasetOrder ==
    /\ Len(results) <= Len(dataset)
    /\ \A i \in 1..Len(results) : results[i].test_id = dataset[i].id

\* a dataset that is not in the order of its ids: the generation of the first
\* test case raised, the second was evaluated
C24_Witness ==
    /\ epc = "returned"
    /\ Len(dataset) = 2
    /\ dataset[1].id > dataset[2].id
    /\ trace[1].infer.kind = "raise"
    /\ trace[2].infer.kind = "text"
    /\ results[1].test_id = dataset[1].id
    /\ results[2].test_id = dataset[2].id

\* C25: for a test case whose query validated and executed, result_rows is the
\* number of rows the query returned.
C25_ResultRowsCounted ==
    \A k \in 1..Len(results) :
        Get(results[k], "execution_success", FALSE) =>
            results[k].result_rows = trace[k].db.rows

----------------------------------------------------------------------------
\* Properties of sanitize_query (SpecPure).

endswith(s, p) == Len(s) >= Len(p) /\ MatchAt(s, p, Len(s) - Len(p) + 1)

\* the input of sanitize_query after its two comment substitutions
CommentStripped(query) == RemoveBlockComments(RemoveLineComments(query))

\* C26: the text sanitize_query returns does not end with a semicolon, and
\* when the comment-stripped input ends with a semicolon the returned text is
\* that input without this one semicolon, trimmed.
C26_OneTrailingSemicolonStripped ==
    Len(psan) >= 2 =>
        LET stripped == CommentStripped(psan[1])
        IN  /\ ~endswith(psan[2], <<";">>)
            /\ endswith(stripped, <<";">>) =>
                  psan[2] = strip(SubSeq(stripped, 1, Len(stripped) - 1))

\* s holds a complete block comment: an opening marker and, later, a closing one
HasBlock(s) ==
    \E i \in 1..Len(s) : \E j \in (i + 2)..Len(s) :
        MatchAt(s, BLOCK_OPEN, i) /\ MatchAt(s, BLOCK_CLOSE, j)

\* C27: the text sanitize_query returns holds no line-comment marker and no
\* complete block comment, whether left over from the input or formed by the
\* removal of another comment.
C27_SanitizedHasNoComment ==
    Len(psan) >= 2 =>
        /\ ~contains(psan[2], LINE_COMMENT)
        /\ ~HasBlock(psan[2])

----------------------------------------------------------------------------
\* Properties of the clean step and of the loop bounds of
\* attempt_sql_generation (SpecRetry).

\* line is a fence line: three backticks, with or without a language tag
IsFenceLine(line) == startswith(strip(line), FENCE)

\* the lines of ls from its first to its last non-blank line
TrimBlankLines(ls) ==
    LET solid == {k \in 1..Len(ls) : ~IsBlank(ls[k])}
    IN  IF solid = {} THEN <<>> ELSE SubSeq(ls, SetMin(solid), SetMax(solid))

\* the interior of a fenced response: the lines after the opening fence line,
\* without the closing fence line when there is one, from the first to the last
\* non-blank line; a response without an opening fence is only trimmed
FenceInterior(response) ==
    LET sql == strip(response)
        lines == split(sql, NL)
        n == Len(lines)
        last == IF n >= 2 /\ IsFenceLine(lines[n]) THEN n - 1 ELSE n
    IN  IF startswith(sql, FENCE)
        THEN strip(join(TrimBlankLines(SubSeq(lines, 2, last)), NL))
        ELSE sql

\* C28: the query a call returns after a generator text is the interior of
\* that text when it starts with a fence line, closing fence present or not,
\* and the trimmed text otherwise.
C28_CleanKeepsInterior ==
    (rpc = "returned" /\ calls >= 1 /\ outcomes[calls].kind = "text") =>
        rret.query = FenceInterior(outcomes[calls].text)

\* C30: with max_retries <= 0 the generator is never called and the call
\* returns the empty query, the after-all-retries diagnostic and success=False;
\* success=True is never returned without a generator call.
C30_NoRetriesNoCall ==
    /\ max_retries <= 0 => calls = 0
    /\ (max_retries <= 0 /\ rpc = "returned") =>
          rret = [query |-> <<>>,
                  msg |-> <<"Failed to generate valid SQL after all retries", "">>,
                  success |-> FALSE]
    /\ (rpc = "returned" /\ rret.success) => calls >= 1

\* a call with a negative max_retries has returned
C30_Witness ==
    /\ max_retries < 0
    /\ rpc = "returned"
    /\ calls = 0
    /\ ~rret.success

----------------------------------------------------------------------------
\* Properties of main of evaluate_models.py (SpecMulti).

\* C29: once run_multi_model_evaluation has returned, no exception leaves
\* main: the report generator is built, the reports are written and main
\* returns an exit code, 0 or, when report generation fails, 1.
C29_MainReturnsExitCode ==
    mpc # "propagated"

====
